---- MODULE Spec2Model ----
(***************************************************************************)
(* QueryKnot (src/src/queryknot.py): the parsy grammar of the flattened    *)
(* key-value format, the tree builder Parser.into_dict and the object      *)
(* materializer Parser.into_object.                                        *)
(*                                                                         *)
(* Text is a sequence of one-character strings.  A parser is an operator   *)
(* P(s, i) from a text s and an index i (the number of characters already  *)
(* consumed) to a result [ok, idx, val], as parsy's Result(status, index,  *)
(* value).                                                                 *)
(***************************************************************************)
EXTENDS Integers, Sequences, FiniteSets, TLC

----------------------------------------------------------------------------
(* Character classes of the regular expressions.                           *)

Lower == {"a", "b", "c", "d", "e", "f", "g", "h", "i", "j", "k", "l", "m",
          "n", "o", "p", "q", "r", "s", "t", "u", "v", "w", "x", "y", "z"}

Upper == {"A", "B", "C", "D", "E", "F", "G", "H", "I", "J", "K", "L", "M",
          "N", "O", "P", "Q", "R", "S", "T", "U", "V", "W", "X", "Y", "Z"}

DigitSeq == <<"0", "1", "2", "3", "4", "5", "6", "7", "8", "9">>

Digit == {DigitSeq[k] : k \in 1..10}

\* [a-zA-Z0-9_]
WordChar == Lower \cup Upper \cup Digit \cup {"_"}

\* [a-zA-Z0-9_.]: the characters of the key regex
KeyChar == WordChar \cup {"."}

\* \s
Space == {" ", "\t", "\n", "\r", "\f"}

UpperSeq == <<"T", "R", "U", "E", "F", "A", "L", "S">>

LowerSeq == <<"t", "r", "u", "e", "f", "a", "l", "s">>

\* str.lower, on the letters of the boolean literals
lower(c) ==
    IF \E k \in 1..Len(UpperSeq) : UpperSeq[k] = c
    THEN LowerSeq[CHOOSE k \in 1..Len(UpperSeq) : UpperSeq[k] = c]
    ELSE c

----------------------------------------------------------------------------
(* parsy primitives.                                                       *)

NoVal == <<>>

\* E(x), with x evaluated once
Let(x, E(_)) == CHOOSE y \in {E(v) : v \in {x}} : TRUE

Success(i, v) == [ok |-> TRUE, idx |-> i, val |-> v]

Failure(i) == [ok |-> FALSE, idx |-> i, val |-> NoVal]

\* the character at index i, "" at the end of the text
At(s, i) == IF i < Len(s) THEN s[i + 1] ELSE ""

\* the end of the longest run of characters of class C that starts at i
RECURSIVE SpanOf(_, _, _)
SpanOf(s, i, C) == IF At(s, i) \in C THEN SpanOf(s, i + 1, C) ELSE i

\* string(expected): the text at i is exactly expected
string(expected, s, i) ==
    IF /\ i + Len(expected) <= Len(s)
       /\ SubSeq(s, i + 1, i + Len(expected)) = expected
    THEN Success(i + Len(expected), expected)
    ELSE Failure(i)

\* string(expected, transform=str.lower): compared after lower-casing
string_lower(expected, s, i) ==
    IF /\ i + Len(expected) <= Len(s)
       /\ \A k \in 1..Len(expected) : lower(s[i + k]) = lower(expected[k])
    THEN Success(i + Len(expected), expected)
    ELSE Failure(i)

\* whitespace.many(): whitespace is regex(r'\s+'), repeated while it matches
whitespace_many(s, i) == SpanOf(s, i, Space)

\* trim_whitespace(parser) == whitespace.many() >> parser << whitespace.many()
\* The parser is given as the function from the position it starts at to
\* its result on s.
trim_whitespace(parser, s, i) ==
    Let(whitespace_many(s, i), LAMBDA a :
    Let(parser[a], LAMBDA r :
        IF r.ok THEN Success(whitespace_many(s, r.idx), r.val) ELSE Failure(i)))

----------------------------------------------------------------------------
(* Values.  Every Python value of the program is a record of one shape,    *)
(* tagged with its type: a float n = <<sign, mantissa, power of ten>>, a   *)
(* str s, a bool b, a list l, a dict or an Object with the entries d, or   *)
(* a raised exception e.                                                   *)

Value == [t |-> "", n |-> <<0, 0, 0>>, s |-> <<>>, b |-> FALSE, l |-> <<>>,
          d |-> <<>>, e |-> ""]

Float(sign, mant, exp) == [Value EXCEPT !.t = "float", !.n = <<sign, mant, exp>>]

Str(text) == [Value EXCEPT !.t = "str", !.s = text]

Bool(b) == [Value EXCEPT !.t = "bool", !.b = b]

List(items) == [Value EXCEPT !.t = "list", !.l = items]

Dict(kids) == [Value EXCEPT !.t = "dict", !.d = kids]

Object(attrs) == [Value EXCEPT !.t = "Object", !.d = attrs]

Raise(exception) == [Value EXCEPT !.t = "raise", !.e = exception]

DigitVal(c) == (CHOOSE k \in 1..10 : DigitSeq[k] = c) - 1

\* the digits of text as a natural number, other characters skipped
RECURSIVE Digits(_, _)
Digits(text, acc) ==
    IF text = <<>> THEN acc
    ELSE IF Head(text) \in Digit
         THEN Digits(Tail(text), 10 * acc + DigitVal(Head(text)))
         ELSE Digits(Tail(text), acc)

\* mant * 10^exp with the trailing zeros of mant moved into exp
RECURSIVE Normal(_, _, _)
Normal(neg, mant, exp) ==
    IF mant = 0 THEN Float(1, 0, 0)
    ELSE IF mant % 10 = 0 THEN Normal(neg, mant \div 10, exp + 1)
         ELSE Float(IF neg THEN -1 ELSE 1, mant, exp)

\* float(text) for a text matched by the number regex: the decimal value
\* (sign, mantissa, power of ten), equal for equal numbers ("1" and "1.0",
\* "10" and "1e1"); the literals of the model are far from the range where
\* a double rounds
float(text) ==
    LET n    == Len(text)
        epos == IF \E k \in 1..n : text[k] = "e"
                THEN CHOOSE k \in 1..n : text[k] = "e" ELSE n + 1
        mtxt == SubSeq(text, 1, epos - 1)
        etxt == SubSeq(text, epos + 1, n)
        dot  == IF \E k \in 1..Len(mtxt) : mtxt[k] = "."
                THEN CHOOSE k \in 1..Len(mtxt) : mtxt[k] = "." ELSE Len(mtxt)
        frac == Len(mtxt) - dot
        e    == Digits(etxt, 0) * (IF etxt # <<>> /\ Head(etxt) = "-" THEN -1 ELSE 1)
    IN  Let(Digits(mtxt, 0), LAMBDA mant :
        Let(e - frac, LAMBDA exp : Normal(Head(text) = "-", mant, exp)))

----------------------------------------------------------------------------
(* DataTypes: the scalar grammars.                                         *)

\* (escape | expect).many().concat(): escape is a backslash and then
\* regex('.'), any character but a newline; expect is regex(r'[^"\\]')
RECURSIVE content(_, _, _)
content(s, i, acc) ==
    IF At(s, i) = "\\"
    THEN IF i + 1 < Len(s) /\ s[i + 2] # "\n"
         THEN content(s, i + 2, Append(acc, s[i + 2]))
         ELSE Success(i, acc)
    ELSE IF i < Len(s) /\ At(s, i) # "\""
         THEN content(s, i + 1, Append(acc, s[i + 1]))
         ELSE Success(i, acc)

quote(s, i) == string(<<"\"">>, s, i)

\* trim_whitespace(string('"'))
quotes(s, i) ==
    trim_whitespace([a \in 0..Len(s) |-> quote(s, a)], s, i)

\* quotes >> (escape | expect).many().concat() << quotes
string_literal(s, i) ==
    Let(quotes(s, i), LAMBDA open :
        IF ~open.ok THEN Failure(i)
        ELSE Let(content(s, open.idx, <<>>), LAMBDA body :
             Let(quotes(s, body.idx), LAMBDA shut :
                 IF shut.ok THEN Success(shut.idx, Str(body.val)) ELSE Failure(i))))

\* regex(r'-?\d+(\.\d+)?(e-?\d+)?'): the end of the match, -1 without one
\* (\.\d+)? after the digits that end at d: the end of the match
fraction(s, d) ==
    IF At(s, d) = "."
    THEN Let(SpanOf(s, d + 1, Digit), LAMBDA p : IF p > d + 1 THEN p ELSE d)
    ELSE d

\* (e-?\d+)? after the mantissa that ends at f: the end of the match
exponent(s, f) ==
    IF At(s, f) = "e"
    THEN Let(IF At(s, f + 1) = "-" THEN f + 2 ELSE f + 1, LAMBDA g :
         Let(SpanOf(s, g, Digit), LAMBDA h : IF h > g THEN h ELSE f))
    ELSE f

number_regex(s, i) ==
    Let(IF At(s, i) = "-" THEN i + 1 ELSE i, LAMBDA a :
    Let(SpanOf(s, a, Digit), LAMBDA d :
        IF d = a THEN -1
        ELSE Let(fraction(s, d), LAMBDA f : exponent(s, f))))

\* regex(...).map(float)
number_literal(s, i) ==
    Let(number_regex(s, i), LAMBDA j :
        IF j < 0 THEN Failure(i) ELSE Success(j, float(SubSeq(s, i + 1, j))))

number(s, i) ==
    trim_whitespace([a \in 0..Len(s) |-> number_literal(s, a)], s, i)

\* string('true', transform=str.lower).result(True) |
\* string('false', transform=str.lower).result(False)
boolean_literal(s, i) ==
    IF string_lower(<<"t", "r", "u", "e">>, s, i).ok
    THEN Success(i + 4, Bool(TRUE))
    ELSE IF string_lower(<<"f", "a", "l", "s", "e">>, s, i).ok
         THEN Success(i + 5, Bool(FALSE))
         ELSE Failure(i)

boolean(s, i) ==
    trim_whitespace([a \in 0..Len(s) |-> boolean_literal(s, a)], s, i)

\* regex(r'[a-zA-Z0-9_]*(\.[a-zA-Z0-9_]*)*'): the longest run of word
\* characters and dots, possibly empty; the value is the raw dotted text
key_regex(s, i) ==
    Let(SpanOf(s, i, KeyChar), LAMBDA j : Success(j, SubSeq(s, i + 1, j)))

key(s, i) ==
    trim_whitespace([a \in 0..Len(s) |-> key_regex(s, a)], s, i)

\* DataTypes.string_literal | DataTypes.number | DataTypes.boolean
scalar(s, i) ==
    Let(string_literal(s, i), LAMBDA text :
        IF text.ok THEN text
        ELSE Let(number(s, i), LAMBDA num : IF num.ok THEN num ELSE boolean(s, i)))

\* string(',') | string(' ').many()
comma_or_spaces(s, i) ==
    IF string(<<",">>, s, i).ok THEN string(<<",">>, s, i)
    ELSE Success(SpanOf(s, i, {" "}), NoVal)

\* trim_whitespace(string(',') | string(' ').many())
ws_or_comma(s, i) ==
    trim_whitespace([a \in 0..Len(s) |-> comma_or_spaces(s, a)], s, i)

\* ws_or_comma >> (string_literal | number | boolean): one more element of
\* the sep_by repetition
sep_then_scalar(s, i) ==
    Let(ws_or_comma(s, i), LAMBDA sep :
        IF ~sep.ok THEN Failure(i)
        ELSE Let(scalar(s, sep.idx), LAMBDA r : IF r.ok THEN r ELSE Failure(i)))

\* string('|') >> trim_whitespace(DataTypesV2.key): one more element of the
\* enum's sep_by repetition
\* a separator that may be absent
pipe_optional(s, i) ==
    IF string(<<"|">>, s, i).ok THEN string(<<"|">>, s, i) ELSE Success(i, NoVal)

pipe(s, i) == string(<<"|">>, s, i)

enum_key(s, i) ==
    trim_whitespace([a \in 0..Len(s) |-> key(s, a)], s, i)

\* key = yield trim_whitespace(DataTypes.key)
datum_key(s, i) ==
    trim_whitespace([a \in 0..Len(s) |-> key(s, a)], s, i)

\* the scalar alternatives of
\* trim_whitespace(string_literal | number | boolean | collection)
datum_scalar(s, i) ==
    trim_whitespace([a \in 0..Len(s) |-> scalar(s, a)], s, i)

pipe_then_key(s, i) ==
    Let(pipe(s, i), LAMBDA sep :
        IF ~sep.ok THEN Failure(i)
        ELSE Let(enum_key(s, sep.idx), LAMBDA r : IF r.ok THEN r ELSE Failure(i)))

----------------------------------------------------------------------------
(* Parser.into_dict and Parser.into_object.  The entries of a dict are a   *)
(* function from its keys to its values.                                   *)

\* key.split('.')
RECURSIVE split(_)
split(text) ==
    IF \E k \in 1..Len(text) : text[k] = "."
    THEN LET d == CHOOSE k \in 1..Len(text) :
                    text[k] = "." /\ \A j \in 1..(k - 1) : text[j] # "."
         IN  <<SubSeq(text, 1, d - 1)>> \o split(SubSeq(text, d + 1, Len(text)))
    ELSE <<text>>

\* an assignment that keeps the value a key already has
RECURSIVE assign_first(_, _, _, _)
assign_first(current, segments, finalseg, val) ==
    IF segments = <<>>
    THEN IF current.t = "dict"
         THEN Dict(current.d @@ (finalseg :> val))
         ELSE Raise("TypeError")
    ELSE IF current.t = "dict"
         THEN LET k    == Head(segments)
                  next == IF k \in DOMAIN current.d THEN current.d[k] ELSE Dict(<<>>)
                  sub  == assign_first(next, Tail(segments), finalseg, val)
              IN  IF sub.t = "raise" THEN sub ELSE Dict((k :> sub) @@ current.d)
         ELSE Raise("AttributeError")

\* current.setdefault(k, {}) for each k of segments, then
\* current[finalseg] = val: the dict current after the assignment.
\* A float, a str, a bool or a list has no setdefault (AttributeError) and
\* no assignment to a str index (TypeError).
RECURSIVE assign(_, _, _, _)
assign(current, segments, finalseg, val) ==
    IF segments = <<>>
    THEN IF current.t = "dict"
         THEN Dict((finalseg :> val) @@ current.d)
         ELSE Raise("TypeError")
    ELSE IF current.t = "dict"
         THEN LET k    == Head(segments)
                  next == IF k \in DOMAIN current.d THEN current.d[k] ELSE Dict(<<>>)
                  sub  == assign(next, Tail(segments), finalseg, val)
              IN  IF sub.t = "raise" THEN sub ELSE Dict((k :> sub) @@ current.d)
         ELSE Raise("AttributeError")

\* a loop body that writes the last segment at the root
for_pair_flat(result, pair) ==
    LET segments == split(pair[1])
    IN  assign(result, <<>>, segments[Len(segments)], pair[2])

\* the body of the loop of into_dict for the pair (key, val)
for_pair(result, pair) ==
    LET segments == split(pair[1])
        n        == Len(segments)
    IN  assign(result, SubSeq(segments, 1, n - 1), segments[n], pair[2])

\* the loop of into_dict over the pairs prs, from the dict result
RECURSIVE for_pairs(_, _)
for_pairs(result, prs) ==
    IF prs = <<>> THEN result
    ELSE LET r == for_pair(result, Head(prs))
         IN  IF r.t = "raise" THEN r ELSE for_pairs(r, Tail(prs))

into_dict(prs) == for_pairs(Dict(<<>>), prs)

Class == <<"_", "_", "c", "l", "a", "s", "s", "_", "_">>

DictAttr == <<"_", "_", "d", "i", "c", "t", "_", "_">>

Weakref == <<"_", "_", "w", "e", "a", "k", "r", "e", "f", "_", "_">>

\* setattr(obj, key, val) on an instance of the class Object: the
\* attributes after it.  Python refuses to set __class__ to a value that is
\* not a class and __dict__ to one that is not a dict (TypeError), and
\* __weakref__ is not writable (AttributeError); no value of the format and
\* no Object is a class or a dict.
setattr(attrs, name, val) ==
    IF name \in {Class, DictAttr} THEN Raise("TypeError")
    ELSE IF name = Weakref THEN Raise("AttributeError")
         ELSE Object((name :> val) @@ attrs.d)

RECURSIVE objectify(_)
RECURSIVE objectify_items(_, _, _)

\* the loop of _objectify over data.items(); todo are the keys still to set
objectify_items(data, todo, o) ==
    IF todo = {} THEN o
    ELSE LET k == CHOOSE k \in todo : TRUE
             v == objectify(data.d[k])
         IN  IF v.t = "raise" THEN v
             ELSE IF setattr(o, k, v).t = "raise" THEN setattr(o, k, v)
                  ELSE objectify_items(data, todo \ {k}, setattr(o, k, v))

\* Parser._objectify
objectify(data) ==
    IF data.t = "dict"
    THEN objectify_items(data, DOMAIN data.d, Object(<<>>))
    ELSE IF data.t = "list"
         THEN List([k \in 1..Len(data.l) |-> objectify(data.l[k])])
         ELSE data

\* Parser.into_object; a list argument is the list of pairs
into_object(dict_data) ==
    IF dict_data.t = "list"
    THEN IF into_dict(dict_data.l).t = "raise"
         THEN into_dict(dict_data.l)
         ELSE objectify(into_dict(dict_data.l))
    ELSE objectify(dict_data)

----------------------------------------------------------------------------
(* Inputs.                                                                 *)

MaxDocLen == 4

MaxItems == 3

MaxEnumLen == 4

MaxStrLen == 4

\* all texts over the alphabet A of at most n characters
Texts(A, n) == UNION {[1..k -> A] : k \in 0..n}

RECURSIVE Concat(_)
Concat(ss) == IF ss = <<>> THEN <<>> ELSE Head(ss) \o Concat(Tail(ss))

DocAlphabet == {"a", ".", "1", " ", "\"", "[", "]"}

\* inputs of TestParser.test_parser and TestParser.test_datum, and two
\* documents of two datums with a collection
DocTests ==
    { <<"a", " ", "1">>,
      <<"a", ".", "b", ".", "c", " ", "1", ".", "0">>,
      <<"a", ".", "b", ".", "c", " ", "t", "r", "u", "e">>,
      <<"a", ".", "b", ".", "c", " ", "[", "1", " ", "\"", "a", "\"", " ", "t", "r", "u", "e", "]">>,
      <<"a", ".", "b", ".", "c", " ", "[", "]">>,
      <<"a", " ", "1", "\n", "b", " ", "2">>,
      <<"a", " ", "1", "\n", "b", " ", "2", "\n", "c", " ", "3">>,
      <<"a", ".", "b", ".", "c">>,
      <<"a", ".", "b", ".", "c", " ", "1", " ", "2">>,
      <<"a", ".", "b", ".", "c", " ", "t", "e", "s", "t">>,
      <<"a", " ", "[", "1", ",", " ", "2", "]", " ", "b", " ", "[", "1", " ", "2">>,
      <<"a", " ", "[", "1", " ", "2", "]", "\n", "b", " ", "3">> }

DocInputs == Texts(DocAlphabet, MaxDocLen) \cup DocTests

\* a collection text is built from value texts and the texts between them
ItemTexts == { <<"1">>, <<"\"", "a", "\"">>, <<"t", "r", "u", "e">>, <<"a">> }

SepTexts == { <<>>, <<" ">>, <<",">>, <<",", " ">>, <<" ", " ">> }

CloseTexts == { <<"]">>, <<>> }

Shapes ==
    UNION { [items : [1..n -> ItemTexts],
             seps  : [1..(IF n = 0 THEN 0 ELSE n - 1) -> SepTexts],
             close : CloseTexts] : n \in 0..MaxItems }

NoShape == [items |-> <<>>, seps |-> <<>>, close |-> <<>>]

Render(sh) ==
    <<"[">> \o Concat([k \in 1..(2 * Len(sh.items) - 1) |->
                         IF k % 2 = 1 THEN sh.items[(k + 1) \div 2]
                                      ELSE sh.seps[k \div 2]])
            \o sh.close

\* inputs of TestDataTypes.test_collection that the shapes do not give
CollectionTests ==
    { <<"[", "1", " ", "2", " ", "[", "1", " ", "2", "]", "]">>,
      <<" ", "[", " ", "1", "\n", "]", " ">>,
      <<"[", " ", "]">> }

EnumAlphabet == {"a", ".", "|", " "}

EnumInputs == Texts(EnumAlphabet, MaxEnumLen)

StrAlphabet == {"\"", "\\", "a", " ", "\n"}

StrInputs == Texts(StrAlphabet, MaxStrLen)

MaxPairs == 3

\* keys and values of the pairs given to into_dict
TreeKeys ==
    { <<"a">>, <<"b">>, <<"a", ".", "b">>, <<"a", ".", "b", ".", "c">>,
      <<"a", ".", ".">>, Class }

TreeValues ==
    { float(<<"1">>), Str(<<"x">>), Bool(TRUE), List(<<float(<<"2">>), Str(<<"y">>)>>) }

PairLists == UNION {[1..n -> TreeKeys \X TreeValues] : n \in 0..MaxPairs}

----------------------------------------------------------------------------
(* The parse of one input, one step per iteration of a repetition.         *)

VARIABLES
    entry,      \* the parser that .parse is called on
    input,      \* input_str
    shape,      \* how a collection input was built; NoShape otherwise
    pc,         \* the position in the parse
    index,      \* parsy's stream index
    start,      \* the index at which the current datum began
    curkey,     \* the key of the current datum
    elems,      \* the elements of the current collection
    values,     \* the values of the outer repetition, or the parsed value
    result,     \* what .parse returned or raised
    parsed,     \* Parser.parsed
    pairs,      \* the list of (key, value) pairs given to into_dict
    call,       \* the position in the calls on the pairs
    tree,       \* what into_dict(pairs) returned or raised
    obj,        \* what into_object(tree) returned or raised
    objl        \* what into_object(pairs) returned or raised

parseVars == <<entry, input, shape, pc, index, start, curkey, elems, values, result, parsed>>

treeVars == <<pairs, call, tree, obj, objl>>

vars == <<parseVars, treeVars>>

None == [status |-> "none", value |-> NoVal]

\* Parser(): nothing is parsed yet
Init ==
    /\ entry = "none"
    /\ input = <<>>
    /\ shape = NoShape
    /\ pc = "idle"
    /\ index = 0
    /\ start = 0
    /\ curkey = <<>>
    /\ elems = <<>>
    /\ values = <<>>
    /\ result = None
    /\ parsed = None
    /\ pairs = <<>>
    /\ call = "none"
    /\ tree = None
    /\ obj = None
    /\ objl = None

\* Parser.parse(input_str), that is Parser._parser.parse(input_str)
CallParse ==
    /\ pc = "idle"
    /\ entry' = "document"
    /\ input' \in DocInputs
    /\ pc' = "many"
    /\ UNCHANGED treeVars
    /\ UNCHANGED <<shape, index, start, curkey, elems, values, result, parsed>>

\* DataTypes.collection.parse(input_str)
CallCollection ==
    /\ pc = "idle"
    /\ entry' = "collection"
    /\ \/ shape' \in Shapes /\ input' = Render(shape')
       \/ shape' = NoShape /\ input' \in CollectionTests
    /\ pc' = "open"
    /\ UNCHANGED treeVars
    /\ UNCHANGED <<index, start, curkey, elems, values, result, parsed>>

\* DataTypesV2.enum.parse(input_str)
CallEnum ==
    /\ pc = "idle"
    /\ entry' = "enum"
    /\ input' \in EnumInputs
    /\ pc' = "enum"
    /\ UNCHANGED treeVars
    /\ UNCHANGED <<shape, index, start, curkey, elems, values, result, parsed>>

\* DataTypes.string_literal.parse(input_str)
CallStringLiteral ==
    /\ pc = "idle"
    /\ entry' = "string_literal"
    /\ input' \in StrInputs
    /\ pc' = "string"
    /\ UNCHANGED treeVars
    /\ UNCHANGED <<shape, index, start, curkey, elems, values, result, parsed>>

ParseError == [status |-> "ParseError", value |-> NoVal]

Returned(v) == [status |-> "ok", value |-> v]

\* Parser.datum, when the value is a string, a number or a boolean: one
\* iteration of Parser.datum.many()
DatumScalar ==
    /\ pc = "many"
    /\ \E k \in {datum_key(input, index)} :
       \E v \in {datum_scalar(input, k.idx)} :
           /\ v.ok
           /\ values' = Append(values, <<k.val, v.val>>)
           /\ index' = v.idx
    /\ UNCHANGED treeVars
    /\ UNCHANGED <<entry, input, shape, pc, start, curkey, elems, result, parsed>>

\* Parser.datum, when the three scalar alternatives have failed: the last
\* alternative, DataTypes.collection, is tried after the key
DatumCollection ==
    /\ pc = "many"
    /\ \E k \in {datum_key(input, index)} :
       \E v \in {datum_scalar(input, k.idx)} :
           /\ ~v.ok
           /\ curkey' = k.val
           /\ index' = whitespace_many(input, k.idx)
    /\ start' = index
    /\ pc' = "open"
    /\ UNCHANGED treeVars
    /\ UNCHANGED <<entry, input, shape, elems, values, result, parsed>>

\* the failure of a collection: Parser.datum fails with it and the
\* repetition ends where the datum began; DataTypes.collection.parse raises
CollectionFails ==
    IF entry = "document"
    THEN /\ pc' = "eof"
         /\ index' = start
         /\ UNCHANGED result
    ELSE /\ pc' = "done"
         /\ result' = ParseError
         /\ UNCHANGED index

\* DataTypes.collection: whitespace.many() >> string('[')
CollectionOpen ==
    /\ pc = "open"
    /\ string(<<"[">>, input, whitespace_many(input, index)).ok
    /\ index' = whitespace_many(input, index) + 1
    /\ pc' = "first"
    /\ UNCHANGED treeVars
    /\ UNCHANGED <<entry, input, shape, start, curkey, elems, values, result, parsed>>

CollectionNotOpen ==
    /\ pc = "open"
    /\ ~string(<<"[">>, input, whitespace_many(input, index)).ok
    /\ CollectionFails
    /\ UNCHANGED treeVars
    /\ UNCHANGED <<entry, input, shape, start, curkey, elems, values, parsed>>

\* sep_by: the first element, self.times(1)
SepByFirst ==
    /\ pc = "first"
    /\ \E r \in {scalar(input, index)} :
           /\ r.ok
           /\ elems' = <<r.val>>
           /\ index' = r.idx
    /\ pc' = "rest"
    /\ UNCHANGED treeVars
    /\ UNCHANGED <<entry, input, shape, start, curkey, values, result, parsed>>

\* sep_by: no first element, success([])
SepByNone ==
    /\ pc = "first"
    /\ ~scalar(input, index).ok
    /\ elems' = <<>>
    /\ pc' = "close"
    /\ UNCHANGED treeVars
    /\ UNCHANGED <<entry, input, shape, index, start, curkey, values, result, parsed>>

\* sep_by: one iteration of (sep >> self).times(min - 1, max - 1)
SepByIter ==
    /\ pc = "rest"
    /\ \E r \in {sep_then_scalar(input, index)} :
           /\ r.ok
           /\ elems' = Append(elems, r.val)
           /\ index' = r.idx
    /\ UNCHANGED treeVars
    /\ UNCHANGED <<entry, input, shape, pc, start, curkey, values, result, parsed>>

SepByBreak ==
    /\ pc = "rest"
    /\ ~sep_then_scalar(input, index).ok
    /\ pc' = "close"
    /\ UNCHANGED treeVars
    /\ UNCHANGED <<entry, input, shape, index, start, curkey, elems, values, result, parsed>>

\* DataTypes.collection: << string(']'), then the trailing whitespace.many()
\* of the collection and, in a datum, of the value
CollectionClose ==
    /\ pc = "close"
    /\ string(<<"]">>, input, index).ok
    /\ IF entry = "document"
       THEN /\ values' = Append(values, <<curkey, List(elems)>>)
            /\ index' = whitespace_many(input, whitespace_many(input, index + 1))
            /\ pc' = "many"
       ELSE /\ values' = List(elems)
            /\ index' = whitespace_many(input, index + 1)
            /\ pc' = "eof"
    /\ elems' = <<>>
    /\ UNCHANGED treeVars
    /\ UNCHANGED <<entry, input, shape, start, curkey, result, parsed>>

CollectionNotClosed ==
    /\ pc = "close"
    /\ ~string(<<"]">>, input, index).ok
    /\ CollectionFails
    /\ UNCHANGED treeVars
    /\ UNCHANGED <<entry, input, shape, start, curkey, elems, values, parsed>>

\* DataTypesV2.enum: the first key of trim_whitespace(key).sep_by(string('|'))
EnumFirst ==
    /\ pc = "enum"
    /\ \E r \in {enum_key(input, index)} :
           /\ r.ok
           /\ values' = <<r.val>>
           /\ index' = r.idx
    /\ pc' = "enum_rest"
    /\ UNCHANGED treeVars
    /\ UNCHANGED <<entry, input, shape, start, curkey, elems, result, parsed>>

\* DataTypesV2.enum: one iteration of (string('|') >> key).times(...)
EnumIter ==
    /\ pc = "enum_rest"
    /\ \E r \in {pipe_then_key(input, index)} :
           /\ r.ok
           /\ values' = Append(values, r.val)
           /\ index' = r.idx
    /\ UNCHANGED treeVars
    /\ UNCHANGED <<entry, input, shape, pc, start, curkey, elems, result, parsed>>

EnumBreak ==
    /\ pc = "enum_rest"
    /\ ~pipe_then_key(input, index).ok
    /\ pc' = "eof"
    /\ UNCHANGED treeVars
    /\ UNCHANGED <<entry, input, shape, index, start, curkey, elems, values, result, parsed>>

\* DataTypes.string_literal
StringLiteral ==
    /\ pc = "string"
    /\ \E r \in {string_literal(input, index)} :
           /\ r.ok
           /\ values' = r.val
           /\ index' = r.idx
    /\ pc' = "eof"
    /\ UNCHANGED treeVars
    /\ UNCHANGED <<entry, input, shape, start, curkey, elems, result, parsed>>

StringLiteralFails ==
    /\ pc = "string"
    /\ ~string_literal(input, index).ok
    /\ result' = ParseError
    /\ pc' = "done"
    /\ UNCHANGED treeVars
    /\ UNCHANGED <<entry, input, shape, index, start, curkey, elems, values, parsed>>

\* Parser.parse(input_str): the eof that parsy's parse adds after the
\* parser, and the assignment of self.parsed; parse_into_dict and
\* parse_into_object hand the datums of a document to into_dict and
\* into_object
\* parse_partial: no eof
eof_absent(s, i) == i <= Len(s)

eof(s, i) == i = Len(s)

Eof ==
    /\ pc = "eof"
    /\ eof(input, index)
    /\ result' = Returned(values)
    /\ parsed' = IF entry = "document" THEN Returned(values) ELSE parsed
    /\ pc' = "done"
    /\ IF entry = "document"
       THEN pairs' = values /\ call' = "start" /\ UNCHANGED <<tree, obj, objl>>
       ELSE UNCHANGED treeVars
    /\ UNCHANGED <<entry, input, shape, index, start, curkey, elems, values>>

EofFails ==
    /\ pc = "eof"
    /\ ~eof(input, index)
    /\ result' = ParseError
    /\ pc' = "done"
    /\ UNCHANGED treeVars
    /\ UNCHANGED <<entry, input, shape, index, start, curkey, elems, values, parsed>>

\* what a call returned, or the exception it raised
Outcome(r) == IF r.t = "raise" THEN [status |-> r.e, value |-> NoVal] ELSE Returned(r)

\* parser.into_dict(pairs)
IntoDict ==
    /\ call = "start"
    /\ tree' = Outcome(into_dict(pairs))
    /\ call' = "dict"
    /\ UNCHANGED <<pairs, obj, objl>>
    /\ UNCHANGED parseVars

\* parser.into_object(parser.into_dict(pairs))
IntoObjectOfDict ==
    /\ call = "dict"
    /\ tree.status = "ok"
    /\ obj' = Outcome(into_object(tree.value))
    /\ call' = "object"
    /\ UNCHANGED <<pairs, tree, objl>>
    /\ UNCHANGED parseVars

\* parser.into_object(pairs)
IntoObjectOfList ==
    /\ \/ call = "object"
       \/ call = "dict" /\ tree.status # "ok"
    /\ objl' = Outcome(into_object(List(pairs)))
    /\ call' = "done"
    /\ UNCHANGED <<pairs, tree, obj>>
    /\ UNCHANGED parseVars

ParseNext ==
    \/ CallParse
    \/ CallCollection
    \/ CallEnum
    \/ CallStringLiteral
    \/ DatumScalar
    \/ DatumCollection
    \/ CollectionOpen
    \/ CollectionNotOpen
    \/ SepByFirst
    \/ SepByNone
    \/ SepByIter
    \/ SepByBreak
    \/ CollectionClose
    \/ CollectionNotClosed
    \/ EnumFirst
    \/ EnumIter
    \/ EnumBreak
    \/ StringLiteral
    \/ StringLiteralFails
    \/ Eof
    \/ EofFails

Next ==
    \/ ParseNext
    \/ IntoDict
    \/ IntoObjectOfDict
    \/ IntoObjectOfList

Spec == Init /\ [][Next]_vars

\* a parse runs to its end: no step of it waits on anything
FairSpec == Spec /\ WF_vars(ParseNext)

\* into_dict and into_object on a list of pairs
TreeInit ==
    /\ entry = "none"
    /\ input = <<>>
    /\ shape = NoShape
    /\ pc = "done"
    /\ index = 0
    /\ start = 0
    /\ curkey = <<>>
    /\ elems = <<>>
    /\ values = <<>>
    /\ result = None
    /\ parsed = None
    /\ pairs \in PairLists
    /\ call = "start"
    /\ tree = None
    /\ obj = None
    /\ objl = None

TreeNext ==
    \/ IntoDict
    \/ IntoObjectOfDict
    \/ IntoObjectOfList

TreeSpec == TreeInit /\ [][TreeNext]_vars

----------------------------------------------------------------------------
(* Properties of Parser.into_dict and Parser.into_object, under TreeSpec.  *)

Key(k) == pairs[k][1]

Val(k) == pairs[k][2]

IsProperPrefix(p, q) == Len(p) < Len(q) /\ SubSeq(q, 1, Len(p)) = p

Missing == Raise("KeyError")

\* the node that the path reaches from node
RECURSIVE Lookup(_, _)
Lookup(node, path) ==
    IF path = <<>> THEN node
    ELSE IF node.t = "dict" /\ Head(path) \in DOMAIN node.d
         THEN Lookup(node.d[Head(path)], Tail(path))
         ELSE Missing

\* the leaves of node with their paths
RECURSIVE Leaves(_, _)
Leaves(node, path) ==
    IF node.t = "dict"
    THEN UNION {Leaves(node.d[k], Append(path, k)) : k \in DOMAIN node.d}
    ELSE {<<path, node>>}

\* the pairs whose key no later pair has
RECURSIVE LastWrites(_)
LastWrites(prs) ==
    IF prs = <<>> THEN <<>>
    ELSE IF \E j \in 2..Len(prs) : prs[j][1] = Head(prs)[1]
         THEN LastWrites(Tail(prs))
         ELSE <<Head(prs)>> \o LastWrites(Tail(prs))

\* no key of the pairs is a path through which another key goes
NoConflict ==
    \A i, j \in 1..Len(pairs) : ~IsProperPrefix(split(Key(i)), split(Key(j)))

DistinctKeys ==
    \A i, j \in 1..Len(pairs) : Key(i) = Key(j) => i = j

\* the tree that into_dict builds from the pairs before the k-th
Before(k) == into_dict(SubSeq(pairs, 1, k - 1))

\* the k-th pair goes through a path that holds a leaf when it is applied
ThroughLeaf(k) ==
    /\ Before(k).t = "dict"
    /\ \E n \in 1..(Len(split(Key(k))) - 1) :
          Lookup(Before(k), SubSeq(split(Key(k)), 1, n)).t \in {"float", "str", "bool", "list"}

\* the k-th pair is written where a branch is when it is applied
OntoBranch(k) ==
    /\ Before(k).t = "dict"
    /\ Lookup(Before(k), split(Key(k))).t = "dict"

\* C1: when a pair's key is a path at which an earlier pair has made a
\* branch, into_dict raises an error and returns no tree.
C1_LeafOntoBranchRaises ==
    (call # "start" /\ \E k \in 1..Len(pairs) : OntoBranch(k)) => tree.status # "ok"

\* C2: when a pair's key goes through a path that holds a leaf of an earlier
\* pair (a number, a string, a boolean or a collection, at any depth),
\* into_dict raises StructuralConflictError and returns no tree.
C2_ThroughLeafRaisesStructuralConflict ==
    (call # "start" /\ \E k \in 1..Len(pairs) : ThroughLeaf(k))
        => tree.status = "StructuralConflictError"

\* What into_dict does when a key goes through a leaf: it raises TypeError
\* or AttributeError and returns no tree.
ThroughLeafRaises ==
    (call # "start" /\ \E k \in 1..Len(pairs) : ThroughLeaf(k))
        => tree.status \in {"TypeError", "AttributeError"}

\* C4: without a structural conflict, the tree holds at each key's path the
\* value of the last pair with that key, and it is the tree of the pairs
\* without the overridden ones.
C4_LastWriteWins ==
    (call # "start" /\ NoConflict) =>
        /\ tree.status = "ok"
        /\ \A k \in 1..Len(pairs) :
              (\A j \in (k + 1)..Len(pairs) : Key(j) # Key(k))
                  => Lookup(tree.value, split(Key(k))) = Val(k)
        /\ tree.value = into_dict(LastWrites(pairs))

C4_Witness ==
    /\ call = "dict"
    /\ NoConflict
    /\ Len(pairs) = 3
    /\ Key(1) = Key(3) /\ Val(1) # Val(3)
    /\ Key(2) # Key(1)
    /\ Lookup(tree.value, split(Key(1))) = Val(3)

\* C5: without path collisions, each key's segments lead from the root
\* through branches to the pair's value, and the tree has no other leaf.
C5_NestedMapping ==
    (call # "start" /\ NoConflict /\ DistinctKeys) =>
        /\ tree.status = "ok"
        /\ \A k \in 1..Len(pairs) :
              /\ Lookup(tree.value, split(Key(k))) = Val(k)
              /\ \A n \in 0..(Len(split(Key(k))) - 1) :
                    Lookup(tree.value, SubSeq(split(Key(k)), 1, n)).t = "dict"
        /\ Leaves(tree.value, <<>>) = {<<split(Key(k)), Val(k)>> : k \in 1..Len(pairs)}

C5_Witness ==
    /\ call = "dict"
    /\ NoConflict /\ DistinctKeys
    /\ \E k \in 1..Len(pairs) :
          /\ Len(split(Key(k))) = 3
          /\ Lookup(tree.value, split(Key(k))) = Val(k)
    /\ \E k \in 1..Len(pairs) : Len(split(Key(k))) = 2
    /\ Len(pairs) = 3

\* the object has the shape of the tree: an Object with the dict's keys as
\* attributes, a list with the same elements, a scalar unchanged
RECURSIVE SameShape(_, _)
SameShape(data, o) ==
    IF data.t = "dict"
    THEN /\ o.t = "Object"
         /\ DOMAIN o.d = DOMAIN data.d
         /\ \A k \in DOMAIN data.d : SameShape(data.d[k], o.d[k])
    ELSE o = data

\* C9: into_object succeeds on every tree of into_dict and keeps its shape,
\* and into_object of the pairs is into_object of their tree.
C9_MaterializeEveryTree ==
    (call = "done" /\ tree.status = "ok") =>
        /\ obj.status = "ok"
        /\ SameShape(tree.value, obj.value)
        /\ objl = obj

\* What into_object does on the trees without a key that setattr refuses.
MaterializeOtherTrees ==
    (call = "done" /\ tree.status = "ok" /\ \A k \in 1..Len(pairs) : Key(k) # Class) =>
        /\ obj.status = "ok"
        /\ SameShape(tree.value, obj.value)
        /\ objl = obj

----------------------------------------------------------------------------
(* Properties of the parsers, under Spec and FairSpec.                     *)

\* the input after the index has a character that is not whitespace
TextRemains == \E k \in (index + 1)..Len(input) : input[k] \notin Space

\* C3: a document parse that leaves text other than whitespace after the
\* last datum raises an error and returns no datums, and a parse returns
\* only when the whole input is consumed; so for the three malformed inputs
\* of the tests.
C3_WholeInputConsumed ==
    (entry = "document" /\ pc = "done") =>
        /\ TextRemains => (result = ParseError /\ parsed = None /\ call = "none")
        /\ result.status = "ok" => (index = Len(input) /\ result.value = values)
        /\ input \in { <<"a", ".", "b", ".", "c">>,
                       <<"a", ".", "b", ".", "c", " ", "1", " ", "2">>,
                       <<"a", ".", "b", ".", "c", " ", "t", "e", "s", "t">> }
              => result = ParseError

C3_Witness ==
    /\ entry = "document"
    /\ pc = "done"
    /\ Len(values) = 1
    /\ TextRemains
    /\ input = <<"a", ".", "b", ".", "c", " ", "1", " ", "2">>
    /\ result = ParseError

HasComma(text) == \E k \in 1..Len(text) : text[k] = ","

HasSpace(text) == \E k \in 1..Len(text) : text[k] = " "

\* C6: a collection with a comma between two of its values and only spaces
\* between two others is not accepted.
C6_SeparatorsNotMixed ==
    (/\ entry = "collection"
     /\ pc = "done"
     /\ \E i, j \in 1..Len(shape.seps) :
           /\ HasComma(shape.seps[i])
           /\ ~HasComma(shape.seps[j]) /\ HasSpace(shape.seps[j]))
        => result.status # "ok"

\* C7: an accepted collection has a space or a comma between each two
\* adjacent values: values that touch are not split into several elements.
C7_ValuesSeparated ==
    (/\ entry = "collection"
     /\ pc = "done"
     /\ result.status = "ok"
     /\ Len(shape.items) >= 2
     /\ Len(result.value.l) = Len(shape.items))
        => \A k \in 1..Len(shape.seps) : HasComma(shape.seps[k]) \/ HasSpace(shape.seps[k])

\* the text with each backslash-and-character pair replaced by the character
RECURSIVE Unescaped(_)
Unescaped(text) ==
    IF text = <<>> THEN <<>>
    ELSE IF Head(text) = "\\" /\ Len(text) >= 2
         THEN <<text[2]>> \o Unescaped(SubSeq(text, 3, Len(text)))
         ELSE <<Head(text)>> \o Unescaped(Tail(text))

FirstQuote == CHOOSE k \in 1..Len(input) : input[k] = "\"" /\ \A j \in 1..(k - 1) : input[j] # "\""

LastQuote == CHOOSE k \in 1..Len(input) : input[k] = "\"" /\ \A j \in (k + 1)..Len(input) : input[j] # "\""

\* C8: the text of an accepted string literal is what stands between its
\* quotes, escapes resolved, the spaces at its start and end included.
C8_StringTextIsQuotedText ==
    (entry = "string_literal" /\ pc = "done" /\ result.status = "ok")
        => result.value.s = Unescaped(SubSeq(input, FirstQuote + 1, LastQuote - 1))

\* C10: every iteration of a repetition (a datum of the document, a
\* separator and value of a collection, a pipe and key of an enum) moves
\* the index forward, and every parse ends with a result or an error.
C10_IterationsConsume ==
    [][/\ DatumScalar => index' > index
       /\ (CollectionClose /\ entry = "document") => index' > start
       /\ SepByIter => index' > index
       /\ EnumIter => index' > index]_vars

C10_ParseEnds == <>(pc = "done" /\ result.status \in {"ok", "ParseError"})

C10_Termination == C10_IterationsConsume /\ C10_ParseEnds

C10_Witness ==
    /\ entry = "document"
    /\ pc = "done"
    /\ result.status = "ok"
    /\ Len(values) = 2
    /\ Len(values[1][2].l) = 2
    /\ index = Len(input)

====
